---- MODULE Spec2Model ----
(***************************************************************************)
(* Model of convert_mask_to_npy.py: the conversion of one PNG mask into an *)
(* annotation record saved as an .npy file (convert_mask_to_npy), and the  *)
(* driver loop over the four fixed input paths (main).                     *)
(*                                                                         *)
(* Strings are tuples of one-character strings.  Contour coordinates are   *)
(* kept in half-pixel units (twice the floating-point value), which is     *)
(* exact for the 0.5 iso-level of a 0/1 mask.                              *)
(***************************************************************************)
EXTENDS Integers, Sequences, FiniteSets, TLC

VARIABLES
    \* ---- the world ----
    fs,            \* the file system: path -> content of the .npy files
    fs0,           \* the file system when the program started
    now,           \* the wall clock read by datetime.now()
    \* ---- one call of convert_mask_to_npy ----
    cpc,           \* position inside the call
    png_path,      \* argument
    output_path,   \* argument / local: <<>> is None, <<p>> is the path p
    mask_array,    \* np.array(img)
    branch,        \* which print of lines 34-40 was taken
    binary_mask,
    contours,
    annotation,
    k,             \* number of contours the for loop of line 61 has handled
    final_array,
    raised_at,     \* the position at which the call raised, "" if it did not
    ret,           \* the returned path, <<>> before the return
    \* ---- main ----
    pc,            \* position inside main
    idx,           \* 1-based index of the path the for loop is at
    status,        \* per path: pending, processing, verified, failed
    env,           \* per path: what the loop found on disk for it
    called,        \* the indices convert_mask_to_npy was called for, in order
    console,       \* the messages main printed, in order
    exit_code      \* -1 while the process runs

vars == <<fs, fs0, now, cpc, png_path, output_path, mask_array, branch,
          binary_mask, contours, annotation, k, final_array, raised_at, ret,
          pc, idx, status, env, called, console, exit_code>>

callVars == <<cpc, png_path, output_path, mask_array, branch, binary_mask,
              contours, annotation, k, final_array, raised_at, ret>>

mainVars == <<pc, idx, status, env, called, console, exit_code>>

-----------------------------------------------------------------------------
(* Bounds *)

MaxDim == 3
MaxClock == 1
MaxPathLen == 3

SmallDim == MaxDim - 1

-----------------------------------------------------------------------------
(* Strings and paths *)

None == <<>>

Some(p) == <<p>>

\* the last position of ch in p[1..i], 0 if there is none
RECURSIVE RFindFrom(_, _, _)
RFindFrom(p, ch, i) ==
    IF i = 0 THEN 0
    ELSE IF p[i] = ch THEN i
    ELSE RFindFrom(p, ch, i - 1)

\* str.rfind, 1-based: 0 where Python gives -1
RFind(p, ch) == RFindFrom(p, ch, Len(p))

EndsWith(s, suf) ==
    /\ Len(s) >= Len(suf)
    /\ SubSeq(s, Len(s) - Len(suf) + 1, Len(s)) = suf

\* os.path.basename (posixpath): everything after the last "/"
Basename(p) == SubSeq(p, RFind(p, "/") + 1, Len(p))

\* os.path.splitext (genericpath._splitext): split at the last dot of the
\* last component, unless that component has only leading dots before it
Splitext(p) ==
    LET sepIndex == RFind(p, "/")
        dotIndex == RFind(p, ".")
    IN  IF /\ dotIndex > sepIndex
           /\ \E j \in (sepIndex + 1)..(dotIndex - 1) : p[j] # "."
        THEN <<SubSeq(p, 1, dotIndex - 1), SubSeq(p, dotIndex, Len(p))>>
        ELSE <<p, <<>>>>

SegSuffix == <<"_", "s", "e", "g", ".", "n", "p", "y">>

NpySuffix == <<".", "n", "p", "y">>

\* mutant: the name is built from the directory instead of the file
DefaultOutputPathFromDir(p) == SubSeq(p, 1, RFind(p, "/") - 1) \o SegSuffix

\* lines 77-78: base_name and f"{base_name}_seg.npy"
DefaultOutputPath(p) == Splitext(Basename(p))[1] \o SegSuffix

\* lines 93-98
png_paths ==
    <<<<"s", "a", "m", "p", "l", "e", "s", "/", "R", "O", "I", " ",
        "1", "_", "1", " ", "m", "a", "s", "k", ".", "p", "n", "g">>,
      <<"s", "a", "m", "p", "l", "e", "s", "/", "R", "O", "I", " ",
        "1", "_", "1", "0", ".", "p", "n", "g">>,
      <<"s", "a", "m", "p", "l", "e", "s", "/", "R", "O", "I", " ",
        "1", "_", "2", "0", ".", "p", "n", "g">>,
      <<"s", "a", "m", "p", "l", "e", "s", "/", "R", "O", "I", " ",
        "1", "_", "6", "2", ".", "p", "n", "g">>>>

\* DefaultOutputPath of the driver's paths, computed once
OutputPathTable ==
    [p \in {png_paths[i] : i \in 1..Len(png_paths)} |-> DefaultOutputPath(p)]

OutputPathOf(p) ==
    IF p \in DOMAIN OutputPathTable THEN OutputPathTable[p]
    ELSE DefaultOutputPath(p)

\* lines 76-78: the path the call saves to and returns
ResolveOutputPath(p, o) == IF o = None THEN OutputPathOf(p) ELSE o[1]

\* np.save: a path that does not end in ".npy" gets ".npy" appended
NpSaveFile(file) == IF EndsWith(file, NpySuffix) THEN file ELSE file \o NpySuffix

-----------------------------------------------------------------------------
(* The file system *)

Exists(f, path) == path \in DOMAIN f

WriteFile(f, path, data) ==
    [p \in DOMAIN f \cup {path} |-> IF p = path THEN data ELSE f[p]]

EmptyFs == [p \in {} |-> <<>>]

\* an annotation file left by an earlier producer
OldFile == << <<0, "legacy", <<>>, <<>>>> >>

-----------------------------------------------------------------------------
(* Binarization, lines 33-40 *)

Rows(g) == Len(g)

Cols(g) == Len(g[1])

\* np.unique(mask_array)
Unique(g) == {g[r][c] : r \in 1..Rows(g), c \in 1..Cols(g)}

\* mutant: the binary branch keeps only the value 255 as foreground
BinaryBranchOnly255(g) ==
    [r \in 1..Rows(g) |-> [c \in 1..Cols(g) |-> IF g[r][c] = 255 THEN 1 ELSE 0]]

\* mutant: the threshold is off by one
BinarizeAbove1(g) ==
    [r \in 1..Rows(g) |-> [c \in 1..Cols(g) |-> IF g[r][c] > 1 THEN 1 ELSE 0]]

\* line 37: (mask_array > 0).astype(np.uint8)
BinaryBranch(g) ==
    [r \in 1..Rows(g) |-> [c \in 1..Cols(g) |-> IF g[r][c] > 0 THEN 1 ELSE 0]]

\* line 40: (mask_array > 0).astype(np.uint8)
NonBinaryBranch(g) ==
    [r \in 1..Rows(g) |-> [c \in 1..Cols(g) |-> IF g[r][c] > 0 THEN 1 ELSE 0]]

BranchOf(g) == IF Cardinality(Unique(g)) = 2 THEN "binary" ELSE "nonbinary"

\* lines 34-40
Binarize(g) ==
    IF BranchOf(g) = "binary" THEN BinaryBranch(g) ELSE NonBinaryBranch(g)

-----------------------------------------------------------------------------
(* Contour extraction, line 46: measure.find_contours(binary_mask, 0.5)    *)
(* with the defaults fully_connected='low', positive_orientation='low'.    *)
(* A point is <<2*row, 2*col>>.                                            *)

\* image[r0, c0] with numpy's 0-based indices
At(g, r0, c0) == g[r0 + 1][c0 + 1]

\* value > level for level 0.5
Above(v) == 2 * v > 1

\* _get_fraction(from_value, to_value, level) in half units, for a 0/1 image
\* and level 0.5: 0 when the two values are equal, else one half
Fraction2(from, to) == IF to = from THEN 0 ELSE 1

SquareCase(g, r0, c0) ==
      (IF Above(At(g, r0, c0)) THEN 1 ELSE 0)
    + (IF Above(At(g, r0, c0 + 1)) THEN 2 ELSE 0)
    + (IF Above(At(g, r0 + 1, c0)) THEN 4 ELSE 0)
    + (IF Above(At(g, r0 + 1, c0 + 1)) THEN 8 ELSE 0)

\* the segments of the square whose upper left corner is (r0, c0)
SquareSegments(g, r0, c0) ==
    LET r1 == r0 + 1
        c1 == c0 + 1
        ul == At(g, r0, c0)
        ur == At(g, r0, c1)
        ll == At(g, r1, c0)
        lr == At(g, r1, c1)
        top == <<2 * r0, 2 * c0 + Fraction2(ul, ur)>>
        bottom == <<2 * r1, 2 * c0 + Fraction2(ll, lr)>>
        left == <<2 * r0 + Fraction2(ul, ll), 2 * c0>>
        right == <<2 * r0 + Fraction2(ur, lr), 2 * c1>>
        sc == SquareCase(g, r0, c0)
    IN  CASE sc = 1 -> << <<top, left>> >>
          [] sc = 2 -> << <<right, top>> >>
          [] sc = 3 -> << <<right, left>> >>
          [] sc = 4 -> << <<left, bottom>> >>
          [] sc = 5 -> << <<top, bottom>> >>
          [] sc = 6 -> << <<right, top>>, <<left, bottom>> >>
          [] sc = 7 -> << <<right, bottom>> >>
          [] sc = 8 -> << <<bottom, right>> >>
          [] sc = 9 -> << <<top, left>>, <<bottom, right>> >>
          [] sc = 10 -> << <<bottom, top>> >>
          [] sc = 11 -> << <<bottom, left>> >>
          [] sc = 12 -> << <<left, right>> >>
          [] sc = 13 -> << <<top, right>> >>
          [] sc = 14 -> << <<left, top>> >>
          [] OTHER -> << >>

\* _get_contour_segments: the squares in row-major order; n counts squares
RECURSIVE SegmentsFrom(_, _)
SegmentsFrom(g, n) ==
    LET w == Cols(g) - 1
    IN  IF n >= (Rows(g) - 1) * w
        THEN << >>
        ELSE SquareSegments(g, n \div w, n % w) \o SegmentsFrom(g, n + 1)

GetContourSegments(g) == SegmentsFrom(g, 0)

DictSet(d, key, v) == [x \in DOMAIN d \cup {key} |-> IF x = key THEN v ELSE d[x]]

DictPop(d, key) == [x \in DOMAIN d \ {key} |-> d[x]]

NoContours == [contours |-> [n \in {} |-> << >>],
               starts |-> [p \in {} |-> 0],
               ends |-> [p \in {} |-> 0],
               current_index |-> 0]

\* one iteration of the loop of _assemble_contours
AddSegment(st, from_point, to_point) ==
    LET hasTail == to_point \in DOMAIN st.starts
        hasHead == from_point \in DOMAIN st.ends
        tail_num == IF hasTail THEN st.starts[to_point] ELSE -1
        head_num == IF hasHead THEN st.ends[from_point] ELSE -1
        starts1 == DictPop(st.starts, to_point)
        ends1 == DictPop(st.ends, from_point)
    IN  IF from_point = to_point THEN st
        ELSE IF hasTail /\ hasHead THEN
            IF tail_num = head_num
            THEN \* close the contour
                 [st EXCEPT !.contours[head_num] = Append(@, to_point),
                            !.starts = starts1,
                            !.ends = ends1]
            ELSE IF tail_num > head_num
            THEN \* tail was created second: append tail to head
                 LET joined == st.contours[head_num] \o st.contours[tail_num]
                 IN  [st EXCEPT
                        !.contours = DictSet(DictPop(st.contours, tail_num),
                                             head_num, joined),
                        !.starts = DictSet(starts1, joined[1], head_num),
                        !.ends = DictSet(ends1, joined[Len(joined)], head_num)]
            ELSE \* head was created second: prepend head to tail
                 LET head == st.contours[head_num]
                     joined == head \o st.contours[tail_num]
                 IN  [st EXCEPT
                        !.contours = DictSet(DictPop(st.contours, head_num),
                                             tail_num, joined),
                        !.starts = DictSet(DictPop(starts1, head[1]),
                                           joined[1], tail_num),
                        !.ends = DictSet(ends1, joined[Len(joined)], tail_num)]
        ELSE IF ~hasTail /\ ~hasHead THEN
            [contours |-> DictSet(st.contours, st.current_index,
                                  <<from_point, to_point>>),
             starts |-> DictSet(starts1, from_point, st.current_index),
             ends |-> DictSet(ends1, to_point, st.current_index),
             current_index |-> st.current_index + 1]
        ELSE IF ~hasHead THEN
            [st EXCEPT !.contours[tail_num] = <<from_point>> \o @,
                       !.starts = DictSet(starts1, from_point, tail_num),
                       !.ends = ends1]
        ELSE
            [st EXCEPT !.contours[head_num] = Append(@, to_point),
                       !.starts = starts1,
                       !.ends = DictSet(ends1, to_point, head_num)]

RECURSIVE AssembleFrom(_, _, _)
AssembleFrom(st, segs, n) ==
    IF n > Len(segs) THEN st
    ELSE AssembleFrom(AddSegment(st, segs[n][1], segs[n][2]), segs, n + 1)

\* sorted(contours.items()): the surviving contours by creation number
RECURSIVE SortedContours(_, _)
SortedContours(d, n) ==
    IF DOMAIN d = {} THEN << >>
    ELSE IF n \in DOMAIN d
         THEN <<d[n]>> \o SortedContours(DictPop(d, n), n + 1)
         ELSE SortedContours(d, n + 1)

AssembleContours(segs) ==
    SortedContours(AssembleFrom(NoContours, segs, 1).contours, 0)

\* find_contours raises ValueError for an image smaller than 2 x 2
ContoursRejects(g) == Rows(g) < 2 \/ Cols(g) < 2

FindContours(g) == AssembleContours(GetContourSegments(g))

-----------------------------------------------------------------------------
(* Packing, lines 50-73 *)

Label == "converted from PNG"

\* astype(int) of a coordinate kept in half units: truncation toward zero
AsInt(v2) == IF v2 >= 0 THEN v2 \div 2 ELSE -((-v2) \div 2)

\* line 63: contour[:, 0].astype(int)
YCoords(contour) == [n \in 1..Len(contour) |-> AsInt(contour[n][1])]

\* line 64: contour[:, 1].astype(int)
XCoords(contour) == [n \in 1..Len(contour) |-> AsInt(contour[n][2])]

\* lines 53-58
NewAnnotation(current_time) == <<current_time, Label, << >>, << >>>>

\* mutant: x taken from the rows and y from the columns
AppendContourSwapped(a, contour) ==
    <<a[1], a[2], Append(a[3], YCoords(contour)), Append(a[4], XCoords(contour))>>

\* lines 67-68
AppendContour(a, contour) ==
    <<a[1], a[2], Append(a[3], XCoords(contour)), Append(a[4], YCoords(contour))>>

\* lines 61-70, the whole loop from contour n on
RECURSIVE PackFrom(_, _, _)
PackFrom(a, cs, n) ==
    IF n > Len(cs) THEN a ELSE PackFrom(AppendContour(a, cs[n]), cs, n + 1)

\* line 73: np.array([annotation], dtype=object)
FinalArray(a) == <<a>>

-----------------------------------------------------------------------------
(* Inputs *)

PixelValues == {0, 1, 255}

FgValues == {1, 255}

BgValues == {-1, 0, 1}

Rect(R, C, r0, r1, c0, c1, fg, bg) ==
    [r \in 1..R |-> [c \in 1..C |->
        IF r \in r0..r1 /\ c \in c0..c1 THEN fg ELSE bg]]

\* every grid up to MaxDim x MaxDim with one (possibly empty) rectangle
RectGrids ==
    UNION {UNION {{Rect(R, C, r0, r1, c0, c1, fg, bg) :
                        r0 \in 1..R, r1 \in 0..R, c0 \in 1..C, c1 \in 0..C,
                        fg \in FgValues, bg \in BgValues} :
                   C \in 1..MaxDim} :
           R \in 1..MaxDim}

\* every grid up to SmallDim x SmallDim
SmallGrids ==
    UNION {UNION {[1..R -> [1..C -> PixelValues]] : C \in 1..SmallDim} :
           R \in 1..SmallDim}

Grids == RectGrids \cup SmallGrids

\* a 1 x 1 mask, a uniform mask, a saddle, and a single interior pixel
SampleGrids ==
    { <<<<255>>>>,
      <<<<255, 255>>, <<255, 255>>>>,
      <<<<0, 255>>, <<255, 0>>>>,
      <<<<0, 0, 0>>, <<0, 255, 0>>, <<0, 0, 0>>>> }

Alphabet == {"x", "/", "."}

PathStrings == UNION {[1..n -> Alphabet] : n \in 0..MaxPathLen}

SamplePath == <<"s", "a", "m", "p", "l", "e", "s", "/", "x", ".", "p", "n", "g">>

CallPaths == PathStrings \cup {SamplePath}

OutArgs == {None, Some(<<"o">>), Some(<<"o", ".", "n", "p", "y">>)}

\* the files that may be there before the call: its target, with and
\* without the suffix np.save appends
PreFiles(p, o) ==
    {ResolveOutputPath(p, o), NpSaveFile(ResolveOutputPath(p, o))}

OldFs(S) == [f \in S |-> OldFile]

-----------------------------------------------------------------------------
(* convert_mask_to_npy, lines 11-87, statement by statement *)

MainIdle ==
    /\ pc = "idle"
    /\ idx = 0
    /\ status = << >>
    /\ env = << >>
    /\ called = << >>
    /\ console = << >>
    /\ exit_code = -1

CallInit ==
    /\ png_path \in CallPaths
    /\ output_path \in OutArgs
    /\ fs0 \in {OldFs(S) : S \in SUBSET PreFiles(png_path, output_path)}
    /\ fs = fs0
    /\ now \in 0..MaxClock
    /\ cpc = "open"
    /\ mask_array = << >>
    /\ branch = ""
    /\ binary_mask = << >>
    /\ contours = << >>
    /\ annotation = << >>
    /\ k = 0
    /\ final_array = << >>
    /\ raised_at = ""
    /\ ret = << >>
    /\ MainIdle

\* the call whose grids are enumerated in full
FullCall ==
    /\ png_path = SamplePath
    /\ output_path = None
    /\ fs0 = EmptyFs
    /\ now = 0

Raise(at) ==
    /\ cpc' = "raised"
    /\ raised_at' = at

\* line 25: Image.open fails on a file that is no readable image
OpenRaises ==
    /\ cpc = "open"
    /\ Raise("open")
    /\ UNCHANGED <<fs, fs0, now, png_path, output_path, mask_array, branch,
                   binary_mask, contours, annotation, k, final_array, ret>>
    /\ UNCHANGED mainVars

\* lines 25-31
Load ==
    /\ cpc = "open"
    /\ \E g \in (IF FullCall THEN Grids ELSE SampleGrids) : mask_array' = g
    /\ cpc' = "binarize"
    /\ UNCHANGED <<fs, fs0, now, png_path, output_path, branch, binary_mask,
                   contours, annotation, k, final_array, raised_at, ret>>
    /\ UNCHANGED mainVars

\* mutant: the output file is created before the mask is processed
BinarizeStepCreatingFile ==
    /\ cpc = "binarize"
    /\ branch' = BranchOf(mask_array)
    /\ binary_mask' = Binarize(mask_array)
    /\ fs' = WriteFile(fs, NpSaveFile(ResolveOutputPath(png_path, output_path)),
                       << >>)
    /\ cpc' = "contours"
    /\ UNCHANGED <<fs0, now, png_path, output_path, mask_array, contours,
                   annotation, k, final_array, raised_at, ret>>
    /\ UNCHANGED mainVars

\* lines 33-40
BinarizeStep ==
    /\ cpc = "binarize"
    /\ branch' = BranchOf(mask_array)
    /\ binary_mask' = Binarize(mask_array)
    /\ cpc' = "contours"
    /\ UNCHANGED <<fs, fs0, now, png_path, output_path, mask_array, contours,
                   annotation, k, final_array, raised_at, ret>>
    /\ UNCHANGED mainVars

\* line 46, find_contours raising
ContoursRaises ==
    /\ cpc = "contours"
    /\ ContoursRejects(binary_mask)
    /\ Raise("contours")
    /\ UNCHANGED <<fs, fs0, now, png_path, output_path, mask_array, branch,
                   binary_mask, contours, annotation, k, final_array, ret>>
    /\ UNCHANGED mainVars

\* lines 43-47
ContoursStep ==
    /\ cpc = "contours"
    /\ ~ContoursRejects(binary_mask)
    /\ contours' = FindContours(binary_mask)
    /\ cpc' = "annot"
    /\ UNCHANGED <<fs, fs0, now, png_path, output_path, mask_array, branch,
                   binary_mask, annotation, k, final_array, raised_at, ret>>
    /\ UNCHANGED mainVars

\* lines 50-58
AnnotStep ==
    /\ cpc = "annot"
    /\ annotation' = NewAnnotation(now)
    /\ k' = 0
    /\ cpc' = "pack"
    /\ UNCHANGED <<fs, fs0, now, png_path, output_path, mask_array, branch,
                   binary_mask, contours, final_array, raised_at, ret>>
    /\ UNCHANGED mainVars

\* lines 61-70, one iteration of the loop
PackStep ==
    /\ cpc = "pack"
    /\ k < Len(contours)
    /\ annotation' = AppendContour(annotation, contours[k + 1])
    /\ k' = k + 1
    /\ UNCHANGED <<fs, fs0, now, cpc, png_path, output_path, mask_array,
                   branch, binary_mask, contours, final_array, raised_at, ret>>
    /\ UNCHANGED mainVars

\* lines 72-78, after the loop
FinalStep ==
    /\ cpc = "pack"
    /\ k = Len(contours)
    /\ final_array' = FinalArray(annotation)
    /\ output_path' = Some(ResolveOutputPath(png_path, output_path))
    /\ cpc' = "save"
    /\ UNCHANGED <<fs, fs0, now, png_path, mask_array, branch, binary_mask,
                   contours, annotation, k, raised_at, ret>>
    /\ UNCHANGED mainVars

\* line 82
SaveStep ==
    /\ cpc = "save"
    /\ fs' = WriteFile(fs, NpSaveFile(output_path[1]), final_array)
    /\ cpc' = "size"
    /\ UNCHANGED <<fs0, now, png_path, output_path, mask_array, branch,
                   binary_mask, contours, annotation, k, final_array,
                   raised_at, ret>>
    /\ UNCHANGED mainVars

\* line 82, np.save failing to open its file
SaveRaises ==
    /\ cpc = "save"
    /\ Raise("save")
    /\ UNCHANGED <<fs, fs0, now, png_path, output_path, mask_array, branch,
                   binary_mask, contours, annotation, k, final_array, ret>>
    /\ UNCHANGED mainVars

\* line 85, os.path.getsize of a path that is not there
SizeRaises ==
    /\ cpc = "size"
    /\ ~Exists(fs, output_path[1])
    /\ Raise("size")
    /\ UNCHANGED <<fs, fs0, now, png_path, output_path, mask_array, branch,
                   binary_mask, contours, annotation, k, final_array, ret>>
    /\ UNCHANGED mainVars

\* lines 84-87
Return ==
    /\ cpc = "size"
    /\ Exists(fs, output_path[1])
    /\ ret' = output_path[1]
    /\ cpc' = "returned"
    /\ UNCHANGED <<fs, fs0, now, png_path, output_path, mask_array, branch,
                   binary_mask, contours, annotation, k, final_array,
                   raised_at>>
    /\ UNCHANGED mainVars

CallNext ==
    \/ OpenRaises
    \/ Load
    \/ BinarizeStep
    \/ ContoursRaises
    \/ ContoursStep
    \/ AnnotStep
    \/ PackStep
    \/ FinalStep
    \/ SaveStep
    \/ SaveRaises
    \/ SizeRaises
    \/ Return

CallSpec == CallInit /\ [][CallNext]_vars

-----------------------------------------------------------------------------
(* convert_mask_to_npy as one step: what a whole call does to the file     *)
(* system and what it returns, for the image the call finds and the       *)
(* clock it reads                                                          *)

Corrupt == [kind |-> "corrupt", grid |-> << >>, saveOk |-> TRUE, loadOk |-> TRUE]

Missing == [kind |-> "missing", grid |-> << >>, saveOk |-> TRUE, loadOk |-> TRUE]

Unread == [kind |-> "unread", grid |-> << >>, saveOk |-> TRUE, loadOk |-> TRUE]

Image(g) == [kind |-> "image", grid |-> g, saveOk |-> TRUE, loadOk |-> TRUE]

\* the images the driver may find: a 1 x 1 mask, a uniform mask, a single
\* interior pixel
DriverGrids ==
    { <<<<255>>>>,
      <<<<255, 255>>, <<255, 255>>>>,
      <<<<0, 0, 0>>, <<0, 255, 0>>, <<0, 0, 0>>>> }

\* FindContours of the driver's masks, computed once
ContourTable ==
    [m \in {Binarize(g) : g \in DriverGrids} |->
        IF ContoursRejects(m) THEN << >> ELSE FindContours(m)]

ContoursOf(m) ==
    IF m \in DOMAIN ContourTable THEN ContourTable[m] ELSE FindContours(m)

\* lines 42-73 for a mask the contour routine accepts
PackedArray(mask, t) ==
    FinalArray(PackFrom(NewAnnotation(t), ContoursOf(mask), 1))

\* lines 75-87
SaveAndReturn(f, p, o, e, arr) ==
    LET out == ResolveOutputPath(p, o)
        f2 == WriteFile(f, NpSaveFile(out), arr)
    IN  IF ~e.saveOk
        THEN [raised_at |-> "save", fs |-> f, ret |-> << >>]
        ELSE IF ~Exists(f2, out)
        THEN [raised_at |-> "size", fs |-> f2, ret |-> << >>]
        ELSE [raised_at |-> "", fs |-> f2, ret |-> out]

ConvertResult(f, p, o, e, t) ==
    IF e.kind # "image"
    THEN [raised_at |-> "open", fs |-> f, ret |-> << >>]
    ELSE LET mask == Binarize(e.grid)
         IN  IF ContoursRejects(mask)
             THEN [raised_at |-> "contours", fs |-> f, ret |-> << >>]
             ELSE SaveAndReturn(f, p, o, e, PackedArray(mask, t))

\* whether the call gets as far as reading the clock and saving
ReachesSave(e) == e.kind = "image" /\ ~ContoursRejects(Binarize(e.grid))

-----------------------------------------------------------------------------
(* main, lines 89-139 *)

NPaths == Len(png_paths)

OutFiles == {OutputPathOf(png_paths[i]) : i \in 1..NPaths}

Printed(tag, i) == Append(console, <<tag, i>>)

Init ==
    /\ fs0 \in {EmptyFs, OldFs(OutFiles)}
    /\ fs = fs0
    /\ now = 0
    /\ pc = "loop"
    /\ idx = 1
    /\ status = [i \in 1..NPaths |-> "pending"]
    /\ env = [i \in 1..NPaths |-> Unread]
    /\ called = << >>
    /\ console = << >>
    /\ exit_code = -1
    /\ cpc = "idle"
    /\ png_path = << >>
    /\ output_path = None
    /\ mask_array = << >>
    /\ branch = ""
    /\ binary_mask = << >>
    /\ contours = << >>
    /\ annotation = << >>
    /\ k = 0
    /\ final_array = << >>
    /\ raised_at = ""
    /\ ret = << >>

\* lines 101-104: the loop takes up the next path
TakeNext ==
    /\ pc = "loop"
    /\ idx <= NPaths
    /\ status' = [status EXCEPT ![idx] = "processing"]
    /\ console' = Printed("Processing", idx)
    /\ pc' = "check"
    /\ UNCHANGED <<fs, fs0, now, idx, env, called, exit_code>>
    /\ UNCHANGED callVars

\* mutant: the continue of line 109 is missing
FileNotFoundFallsThrough ==
    /\ pc = "check"
    /\ env' = [env EXCEPT ![idx] = Missing]
    /\ console' = Printed("Error: File not found", idx)
    /\ pc' = "try"
    /\ UNCHANGED <<fs, fs0, now, idx, status, called, exit_code>>
    /\ UNCHANGED callVars

\* lines 107-109: the file is not there
FileNotFound ==
    /\ pc = "check"
    /\ env' = [env EXCEPT ![idx] = Missing]
    /\ console' = Printed("Error: File not found", idx)
    /\ status' = [status EXCEPT ![idx] = "failed"]
    /\ idx' = idx + 1
    /\ pc' = "loop"
    /\ UNCHANGED <<fs, fs0, now, called, exit_code>>
    /\ UNCHANGED callVars

\* line 107: the file is there, whatever it holds
FileFound ==
    /\ pc = "check"
    /\ \E e \in {Corrupt} \cup {Image(g) : g \in DriverGrids} :
            env' = [env EXCEPT ![idx] = e]
    /\ pc' = "try"
    /\ UNCHANGED <<fs, fs0, now, idx, status, called, console, exit_code>>
    /\ UNCHANGED callVars

\* lines 112-114: the call returns
ConvertReturns ==
    /\ pc = "try"
    /\ \E t \in now..MaxClock, ok \in BOOLEAN :
         \E e \in {[env[idx] EXCEPT !.saveOk = ok]} :
         \E r \in {ConvertResult(fs, png_paths[idx], None, e, t)} :
             /\ ReachesSave(e) \/ (ok /\ t = now)
             /\ r.raised_at = ""
             /\ env' = [env EXCEPT ![idx] = e]
             /\ now' = t
             /\ fs' = r.fs
             /\ ret' = r.ret
    /\ called' = Append(called, idx)
    /\ console' = Printed("Successfully converted", idx)
    /\ pc' = "verify"
    /\ UNCHANGED <<fs0, idx, status, exit_code>>
    /\ UNCHANGED <<cpc, png_path, output_path, mask_array, branch,
                   binary_mask, contours, annotation, k, final_array,
                   raised_at>>

\* mutant: the handler goes round the same path again
ConvertRaisesRetries ==
    /\ pc = "try"
    /\ \E t \in now..MaxClock, ok \in BOOLEAN :
         \E e \in {[env[idx] EXCEPT !.saveOk = ok]} :
         \E r \in {ConvertResult(fs, png_paths[idx], None, e, t)} :
             /\ ReachesSave(e) \/ (ok /\ t = now)
             /\ r.raised_at # ""
             /\ env' = [env EXCEPT ![idx] = e]
             /\ now' = t
             /\ fs' = r.fs
    /\ called' = Append(called, idx)
    /\ console' = Printed("Error during conversion", idx)
    /\ status' = [status EXCEPT ![idx] = "failed"]
    /\ pc' = "loop"
    /\ UNCHANGED <<fs0, idx, exit_code>>
    /\ UNCHANGED callVars

\* lines 113, 129-132: the call raises and the handler prints the error
ConvertRaises ==
    /\ pc = "try"
    /\ \E t \in now..MaxClock, ok \in BOOLEAN :
         \E e \in {[env[idx] EXCEPT !.saveOk = ok]} :
         \E r \in {ConvertResult(fs, png_paths[idx], None, e, t)} :
             /\ ReachesSave(e) \/ (ok /\ t = now)
             /\ r.raised_at # ""
             /\ env' = [env EXCEPT ![idx] = e]
             /\ now' = t
             /\ fs' = r.fs
    /\ called' = Append(called, idx)
    /\ console' = Printed("Error during conversion", idx)
    /\ status' = [status EXCEPT ![idx] = "failed"]
    /\ idx' = idx + 1
    /\ pc' = "loop"
    /\ UNCHANGED exit_code
    /\ UNCHANGED <<fs0>>
    /\ UNCHANGED callVars

\* mutant: the success report is printed before the file is loaded
VerifyLoadsUnchecked ==
    /\ pc = "verify"
    /\ \E ok \in BOOLEAN : env' = [env EXCEPT ![idx].loadOk = ok]
    /\ console' = Printed("Number of contours", idx)
    /\ status' = [status EXCEPT ![idx] = "verified"]
    /\ idx' = idx + 1
    /\ pc' = "loop"
    /\ ret' = << >>
    /\ UNCHANGED <<fs, fs0, now, called, exit_code>>
    /\ UNCHANGED <<cpc, png_path, output_path, mask_array, branch,
                   binary_mask, contours, annotation, k, final_array,
                   raised_at>>

\* lines 116-127: the written file loads
VerifyLoads ==
    /\ pc = "verify"
    /\ Exists(fs, ret)
    /\ console' = Printed("Number of contours", idx)
    /\ status' = [status EXCEPT ![idx] = "verified"]
    /\ idx' = idx + 1
    /\ pc' = "loop"
    /\ ret' = << >>
    /\ UNCHANGED <<fs, fs0, now, env, called, exit_code>>
    /\ UNCHANGED <<cpc, png_path, output_path, mask_array, branch,
                   binary_mask, contours, annotation, k, final_array,
                   raised_at>>

\* mutant: the error of np.load is not caught and ends the process
VerifyRaisesUncaught ==
    /\ pc = "verify"
    /\ env' = [env EXCEPT ![idx].loadOk = FALSE]
    /\ console' = Printed("Traceback", idx)
    /\ status' = [status EXCEPT ![idx] = "failed"]
    /\ exit_code' = 1
    /\ pc' = "exit"
    /\ ret' = << >>
    /\ UNCHANGED <<fs, fs0, now, idx, called>>
    /\ UNCHANGED <<cpc, png_path, output_path, mask_array, branch,
                   binary_mask, contours, annotation, k, final_array,
                   raised_at>>

\* lines 118, 129-132: np.load raises and the handler prints the error
VerifyRaises ==
    /\ pc = "verify"
    /\ env' = [env EXCEPT ![idx].loadOk = FALSE]
    /\ console' = Printed("Error during conversion", idx)
    /\ status' = [status EXCEPT ![idx] = "failed"]
    /\ idx' = idx + 1
    /\ pc' = "loop"
    /\ ret' = << >>
    /\ UNCHANGED <<fs, fs0, now, called, exit_code>>
    /\ UNCHANGED <<cpc, png_path, output_path, mask_array, branch,
                   binary_mask, contours, annotation, k, final_array,
                   raised_at>>

\* lines 134-139: the loop is exhausted, main returns and the interpreter
\* exits
Finish ==
    /\ pc = "loop"
    /\ idx > NPaths
    /\ console' = Printed("All conversions completed!", 0)
    /\ exit_code' = 0
    /\ pc' = "exit"
    /\ UNCHANGED <<fs, fs0, now, idx, status, env, called>>
    /\ UNCHANGED callVars

Next ==
    \/ TakeNext
    \/ FileNotFound
    \/ FileFound
    \/ ConvertReturns
    \/ ConvertRaises
    \/ VerifyLoads
    \/ VerifyRaises
    \/ Finish

Spec == Init /\ [][Next]_vars

\* the loop is sequential code: it keeps running until the process exits
LiveSpec == Spec /\ WF_vars(Next)

-----------------------------------------------------------------------------
(* Properties of one call of convert_mask_to_npy, checked under CallSpec *)

\* the call has built its annotation (line 58 has run)
Packing == annotation # << >>

\* the for loop of line 61 has ended
Packed == cpc \in {"save", "size", "returned"} \/ raised_at \in {"save", "size"}

\* np.save has written (line 82 has run)
Saved == cpc \in {"size", "returned"} \/ raised_at = "size"

\* v is the integer part of the non-negative coordinate whose double is v2
IntegerPartOf(v, v2) == 2 * v <= v2 /\ v2 < 2 * v + 2

\* C5: the x list and the y list of the annotation have the same length, the
\* number of contours handled so far (all of them once the loop has ended);
\* entry i of each comes from contour i, x from its column coordinates and y
\* from its row coordinates, truncated, and the two have the contour's length
C5_ParallelLists ==
    Packing =>
        /\ Len(annotation) = 4
        /\ Len(annotation[3]) = k
        /\ Len(annotation[4]) = k
        /\ k <= Len(contours)
        /\ Packed => k = Len(contours) /\ final_array = <<annotation>>
        /\ \A i \in 1..k :
              /\ Len(annotation[3][i]) = Len(contours[i])
              /\ Len(annotation[4][i]) = Len(contours[i])
              /\ \A n \in 1..Len(contours[i]) :
                    /\ IntegerPartOf(annotation[3][i][n], contours[i][n][2])
                    /\ IntegerPartOf(annotation[4][i][n], contours[i][n][1])

\* C5 witness: a returned call that packed two contours whose x and y differ
C5_Witness ==
    /\ cpc = "returned"
    /\ Len(contours) = 2
    /\ Len(annotation[3]) = 2
    /\ \E i \in 1..2 : annotation[3][i] # annotation[4][i]

\* C6: whatever branch is taken, the mask has the raw grid's shape and holds
\* 1 where the raw value is strictly positive and 0 elsewhere; the two
\* branches give the same mask
C6_Threshold ==
    binary_mask # << >> =>
        /\ branch \in {"binary", "nonbinary"}
        /\ branch = "binary" <=> Cardinality(Unique(mask_array)) = 2
        /\ Len(binary_mask) = Len(mask_array)
        /\ \A r \in 1..Len(mask_array) :
              /\ Len(binary_mask[r]) = Len(mask_array[r])
              /\ \A c \in 1..Len(mask_array[r]) :
                    /\ binary_mask[r][c] \in {0, 1}
                    /\ binary_mask[r][c] = 1 <=> mask_array[r][c] > 0
        /\ BinaryBranch(mask_array) = NonBinaryBranch(mask_array)

\* C6 witness: a grid with a non-positive value and two different positive
\* values, binarized by the else branch
C6_Witness ==
    /\ binary_mask # << >>
    /\ branch = "nonbinary"
    /\ Cardinality(Unique(mask_array)) = 3
    /\ Unique(binary_mask) = {0, 1}

\* C6 witness of the other branch: a two-valued grid with a negative value
C6_WitnessBinary ==
    /\ binary_mask # << >>
    /\ branch = "binary"
    /\ -1 \in Unique(mask_array)
    /\ Unique(binary_mask) = {0, 1}

\* C7 as stated: the file the call writes is at the output path itself, the
\* default <base name>_seg.npy or the explicit path unchanged, and the call
\* returns that path
C7_OutputPathWritten ==
    Saved =>
        /\ Exists(fs, output_path[1])
        /\ fs[output_path[1]] = final_array
        /\ raised_at # "size"
        /\ cpc = "returned" => ret = output_path[1]

\* C7, the part the code keeps: with no explicit path, the call writes to and
\* returns <base name>_seg.npy
C7_DefaultPathWritten ==
    (Saved /\ EndsWith(output_path[1], NpySuffix)) =>
        /\ Exists(fs, output_path[1])
        /\ fs[output_path[1]] = final_array
        /\ raised_at # "size"
        /\ cpc = "returned" => ret = output_path[1]

\* every value is strictly positive, or every value is zero
UniformGrid(g) ==
    \/ \A r \in 1..Len(g) : \A c \in 1..Len(g[r]) : g[r][c] > 0
    \/ \A r \in 1..Len(g) : \A c \in 1..Len(g[r]) : g[r][c] = 0

\* the call is past line 46
PastContours == cpc \in {"annot", "pack", "save", "size", "returned", "raised"}

\* C8 as stated: for a uniform raw grid of any size, contour extraction
\* yields an empty list
C8_AnySize ==
    (mask_array # << >> /\ UniformGrid(mask_array) /\ PastContours) =>
        /\ raised_at # "contours"
        /\ contours = << >>

\* C8 amended: for a uniform raw grid of at least 2 x 2, the mask is uniform,
\* contour extraction yields an empty list, and the record that is written
\* has 4 fields with an empty x list and an empty y list
C8_AtLeast2x2 ==
    (/\ mask_array # << >>
     /\ UniformGrid(mask_array)
     /\ Len(mask_array) >= 2
     /\ Len(mask_array[1]) >= 2
     /\ PastContours) =>
        /\ Cardinality(Unique(binary_mask)) = 1
        /\ raised_at # "contours"
        /\ contours = << >>
        /\ Saved =>
              /\ Len(fs[NpSaveFile(output_path[1])]) = 1
              /\ Len(fs[NpSaveFile(output_path[1])][1]) = 4
              /\ fs[NpSaveFile(output_path[1])][1][3] = << >>
              /\ fs[NpSaveFile(output_path[1])][1][4] = << >>

\* C8 witness: a returned call on a 2 x 2 or larger grid of two different
\* positive values
C8_Witness ==
    /\ cpc = "returned"
    /\ Len(mask_array) >= 2
    /\ Len(mask_array[1]) >= 2
    /\ Unique(mask_array) = {1, 255}
    /\ fs[ret][1][3] = << >>

\* C10: until np.save runs the file system is as the call found it, also
\* when the load or the contour extraction raises; afterwards it differs
\* only by the one file np.save wrote
C10_WriteIsLast ==
    /\ ~Saved /\ raised_at # "save" => fs = fs0
    /\ raised_at \in {"open", "contours"} => fs = fs0
    /\ Saved => fs = WriteFile(fs0, NpSaveFile(output_path[1]), final_array)

\* C10 witness: the contour routine rejected the grid and the file that was
\* already at the output path is still there
C10_Witness ==
    /\ raised_at = "contours"
    /\ Exists(fs0, ResolveOutputPath(png_path, output_path))
    /\ fs[ResolveOutputPath(png_path, output_path)] = OldFile

\* the statement-by-statement call and ConvertResult agree
StepsAgreeWithConvertResult ==
    /\ cpc = "returned" =>
          \E o \in OutArgs :
             LET r == ConvertResult(fs0, png_path, o, Image(mask_array), now)
             IN  r.raised_at = "" /\ r.fs = fs /\ r.ret = ret
    /\ raised_at = "open" => fs = fs0
    /\ raised_at \in {"contours", "size"} =>
          \E o \in OutArgs :
             LET r == ConvertResult(fs0, png_path, o, Image(mask_array), now)
             IN  r.raised_at = raised_at /\ r.fs = fs
    /\ raised_at = "save" =>
          \E o \in OutArgs :
             LET e == [Image(mask_array) EXCEPT !.saveOk = FALSE]
                 r == ConvertResult(fs0, png_path, o, e, now)
             IN  r.raised_at = raised_at /\ r.fs = fs

-----------------------------------------------------------------------------
(* Properties of main, checked under Spec and LiveSpec *)

Range(q) == {q[n] : n \in 1..Len(q)}

\* the content of the file at path, << >> if there is none
FileAt(f, path) == IF Exists(f, path) THEN f[path] ELSE << >>

\* a file's record without its timestamp
SansTime(file) ==
    IF file = << >> THEN << >> ELSE <<file[1][2], file[1][3], file[1][4]>>

OutFile(i) == OutputPathOf(png_paths[i])

Settled(i) == status[i] \in {"verified", "failed"}

\* C1: whatever happened to the paths before it (a missing file, a call that
\* raised, a reload that raised), every path is taken up: the loop never
\* stops early, each path behind the loop's position is settled, a failure
\* moves the loop on, and the process ends only after all four were taken up
C1_FailuresIsolated ==
    /\ idx \in 1..(NPaths + 1)
    /\ \A i \in 1..NPaths :
          /\ i < idx => Settled(i) /\ <<"Processing", i>> \in Range(console)
          /\ status[i] = "failed" => idx > i
    /\ pc = "exit" =>
          /\ idx = NPaths + 1
          /\ \A i \in 1..NPaths : <<"Processing", i>> \in Range(console)

\* C1 witness: the first three paths failed in the three ways and the
\* fourth was still converted and verified
C1_Witness ==
    /\ pc = "exit"
    /\ env[1].kind = "missing"
    /\ env[2].kind = "corrupt"
    /\ env[3].kind = "image" /\ ~env[3].loadOk
    /\ status[4] = "verified"

\* the only moves of a path's state
StatusMove(a, b) ==
    \/ a = b
    \/ a = "pending" /\ b = "processing"
    \/ a = "processing" /\ b \in {"verified", "failed"}

\* C2: every path starts pending, moves only pending -> processing ->
\* verified or failed, and is verified or failed when the process ends;
\* verified is reached only after the call returned and the written file
\* was reloaded without error
C2_StateMachine ==
    /\ \A i \in 1..NPaths : status[i] = "pending"
    /\ [][\A i \in 1..NPaths : StatusMove(status[i], status'[i])]_vars
    /\ [](\A i \in 1..NPaths :
            /\ status[i] \in {"pending", "processing", "verified", "failed"}
            /\ pc = "exit" => Settled(i)
            /\ status[i] = "verified" =>
                  /\ env[i].kind = "image"
                  /\ env[i].saveOk
                  /\ env[i].loadOk
                  /\ i \in Range(called)
                  /\ <<"Successfully converted", i>> \in Range(console)
                  /\ Exists(fs, OutFile(i)))

\* C2 witness: one path verified, one failed, one being processed, one
\* pending
C2_Witness ==
    /\ status[1] = "verified"
    /\ status[2] = "failed"
    /\ status[3] = "processing"
    /\ status[4] = "pending"

\* C3: for a path that is not there the driver prints the file-not-found
\* message, does not call convert_mask_to_npy, leaves the file system
\* alone, and moves on to the next path; the file at its output path is, at
\* the end of the batch, as it was at the start
C3_MissingSkipped ==
    /\ [][(pc = "check" /\ env'[idx].kind = "missing") =>
             /\ console' = Append(console, <<"Error: File not found", idx>>)
             /\ called' = called
             /\ fs' = fs
             /\ idx' = idx + 1
             /\ pc' = "loop"]_vars
    /\ [](\A i \in 1..NPaths :
            env[i].kind = "missing" =>
               /\ i \notin Range(called)
               /\ <<"Error during conversion", i>> \notin Range(console)
               /\ pc = "exit" => FileAt(fs, OutFile(i)) = FileAt(fs0, OutFile(i)))

\* C3 witness: the second path was missing, after a first that was
\* converted, and the loop is at the third with the old file of the second
\* still in place
C3_Witness ==
    /\ status[1] = "verified"
    /\ env[2].kind = "missing"
    /\ idx = 3
    /\ FileAt(fs, OutFile(2)) = OldFile

\* the paths the loop has taken up, in order
TakenUp == SelectSeq(console, LAMBDA m : m[1] = "Processing")

\* C4: the batch terminates with exit code 0 after the final message; the
\* paths are taken up in list order, each at most once, and the loop never
\* goes back to a path
C4_Terminates ==
    /\ <>(pc = "exit" /\ exit_code = 0)
    /\ [](/\ \A n \in 1..Len(TakenUp) : TakenUp[n] = <<"Processing", n>>
          /\ Len(TakenUp) <= NPaths
          /\ Len(called) <= NPaths
          /\ \A m, n \in 1..Len(called) : m < n => called[m] < called[n]
          /\ pc = "exit" =>
                /\ exit_code = 0
                /\ console[Len(console)] = <<"All conversions completed!", 0>>
          /\ pc # "exit" => exit_code = -1)
    /\ [][idx' >= idx]_vars

\* C4 witness: the process has exited with code 0 although paths failed
C4_Witness ==
    /\ pc = "exit"
    /\ exit_code = 0
    /\ status[1] = "failed"
    /\ status[4] = "failed"
    /\ Len(called) = 3

\* one iteration of the loop for path i, alone, from the initial file system
Alone(i) ==
    IF env[i].kind = "missing"
    THEN [status |-> "failed", fs |-> fs0]
    ELSE LET r == ConvertResult(fs0, png_paths[i], None, env[i], 0)
         IN  [status |-> IF r.raised_at = "" /\ env[i].loadOk
                         THEN "verified" ELSE "failed",
              fs |-> r.fs]

\* C9: at the end of the batch every path's outcome and the record in its
\* output file, timestamp aside, are those of processing that path alone;
\* no step of the loop changes the output file of an earlier path
C9_Independent ==
    /\ [](pc = "exit" =>
            \A i \in 1..NPaths :
               /\ status[i] = Alone(i).status
               /\ SansTime(FileAt(fs, OutFile(i)))
                    = SansTime(FileAt(Alone(i).fs, OutFile(i))))
    /\ [][\A j \in 1..NPaths :
            j < idx => FileAt(fs', OutFile(j)) = FileAt(fs, OutFile(j))]_vars

\* C9 witness: the batch ended with two paths converted from different
\* images at different times, over files that were already there
C9_Witness ==
    /\ pc = "exit"
    /\ fs0 # EmptyFs
    /\ status[1] = "verified"
    /\ status[2] = "failed"
    /\ status[3] = "verified"
    /\ env[1].grid # env[3].grid
    /\ fs[OutFile(1)][1][1] # fs[OutFile(3)][1][1]

====
